---- MODULE Spec2Model ----
(***************************************************************************)
(* Order-lifecycle control loop of the StandX maker-points bot             *)
(* (src/src/bot/maker-points-bot.ts, class MakerPointsBot) together with   *)
(* the venue it talks to.                                                  *)
(*                                                                         *)
(* JavaScript runs one handler at a time; a handler gives up control only  *)
(* at an `await`.  Every action below is therefore one synchronous segment *)
(* of a handler: from the event (or the resumption of an await) up to the  *)
(* next await or the end of the handler.  A suspended handler is a task    *)
(* with a program counter naming the await it is waiting in.  A gateway    *)
(* call takes effect at the venue in the step that resumes the await.      *)
(*                                                                         *)
(* Telegram notifications are disabled (their awaits return at once), and  *)
(* the calls of OrderManager report a failure by their result (null or     *)
(* false), not by an exception.                                            *)
(*                                                                         *)
(* Units: prices are integers (tick 1); quantities are multiples of        *)
(* 0.00001 BTC, the tolerance the bot uses for "zero position".            *)
(***************************************************************************)
EXTENDS Integers, Sequences, FiniteSets, TLC

\* ------------------------------------------------------------ configuration
orderDistanceBp == 20
minDistanceBp == 10
maxDistanceBp == 30
\* new Decimal('0.00001'), one quantity unit
Eps == 1
\* config.trading.orderSizeBtc in quantity units
OrderSize == 1

\* StandXWebSocket: retries before giving up, first retry delay and the cap
\* of the delay, in ms
maxReconnectAttempts == 30
reconnectDelay == 1000
MaxBackoff == 30000
Streams == {"market", "order"}

\* ------------------------------------------------------------------- bounds
\* number of handler invocations that may be suspended in an await at once
MaxTasks == 2
\* limit orders the venue accepts over a run; later placements are rejected
MaxOrders == 2
\* close orders the venue accepts over a run; later closes are rejected
MaxCloses == 1
\* further closes the venue accepts where chains of closes are studied
CloseCredit == 2
Tasks == 1..MaxTasks
Modes == {"both", "buy", "sell"}
Sides == {"buy", "sell"}

\* A feed message of the price channel.  mark = -1: no usable mark price in
\* the message; last = 0: last price omitted; bid = 0: spread omitted.
Snap(m, l, b, a) == [mark |-> m, last |-> l, bid |-> b, ask |-> a]

\* the feed messages
Calm == Snap(10000, 10000, 9999, 10001)      \* gap 0 bp
Volatile == Snap(10000, 10021, 0, 0)         \* gap 21 bp > 20 bp
AtThreshold == Snap(10000, 10020, 0, 0)      \* gap 20 bp = orderDistanceBp
InBand == Snap(10000, 10018, 0, 0)           \* gap 18 bp, in [16 bp, 20 bp]
AtHysteresis == Snap(10000, 10016, 0, 0)     \* gap 16 bp = 0.8 * 20 bp
ZeroMark == Snap(0, 0, 0, 0)                 \* mark price "0"
Malformed == Snap(-1, 0, 0, 0)               \* no mark price in the message
Garbage == Snap(-2, 0, 0, 0)                 \* text that JSON.parse rejects

\* the market has moved down by 15: mark 9985, book not reported
Near == Snap(9985, 9985, 0, 0)
\* the same with a book whose best bid and ask sit on the quotes of Calm
Crossed == Snap(9985, 9985, 9980, 10020)
\* the market has moved down by 40: mark 9960, book not reported
Dropped == Snap(9960, 9960, 0, 0)

\* what the feed delivers while fills are studied
FillSnapshots == {Calm, Malformed}
\* what the feed delivers while the guards of the evaluation are studied
GuardSnapshots == {Calm, ZeroMark, Malformed}
\* what the market socket receives while its message handler is studied
WireMessages == {Calm, Dropped, Malformed, Garbage}
\* what the feed delivers while the spread and distance checks are studied
BandSnapshots == {Calm, Near, Crossed, Dropped}
\* what the feed delivers while the checks after a resume are studied
ResumeSnapshots == {Calm, Volatile, Near}
\* what the feed delivers while the volatility gate is studied
VolSnapshots == {Calm, Volatile, AtThreshold, InBand, AtHysteresis}

\* positions the account may hold when start() is called
StartPositions == {-OrderSize, 0, OrderSize}

\* mark prices the REST endpoint may return to getMarkPrice
FreshMarks == {10015}

VARIABLES
  \* ---- MakerPointsBot fields
  isRunning, stopRequested, isProcessingFill, isPausedDueToVolatility,
  markPrice, lastPrice, spreadBid, spreadAsk,
  position, buyOrder, sellOrder, stats, mode,
  \* ---- StandXWebSocket
  handlersSet, marketUp, isManualClose, inbox,
  orderUp, reconnectAttempts, timer, maxReached,
  \* ---- venue
  venuePos, venueOrders, nextId,
  \* ---- suspended handlers
  task,
  \* ---- history of gateway calls and feed
  closeCalls, nClosed, fills, startState, feed

botVars == <<isRunning, stopRequested, isProcessingFill, isPausedDueToVolatility,
             markPrice, lastPrice, spreadBid, spreadAsk,
             position, buyOrder, sellOrder, stats, mode>>
reconnVars == <<orderUp, reconnectAttempts, timer, maxReached>>
wsVars == <<handlersSet, marketUp, isManualClose, inbox, reconnVars>>
venueVars == <<venuePos, venueOrders, nextId>>
histVars == <<closeCalls, nClosed, fills, startState, feed>>
vars == <<botVars, wsVars, venueVars, task, histVars>>

\* ------------------------------------------------------------------ helpers
Abs(x) == IF x < 0 THEN -x ELSE x

\* state.buyOrder / state.sellOrder: null is the record with orderId 0
NoOrder == [orderId |-> 0, price |-> 0, status |-> "NONE", filledQty |-> 0]
NewOrder(id, p) == [orderId |-> id, price |-> p, status |-> "OPEN", filledQty |-> 0]

Opposite(side) == IF side = "buy" THEN "sell" ELSE "buy"

\* currentPosition.abs().gte(new Decimal('0.00001'))
NonZero(q) == Abs(q) >= Eps

\* OrderManager.calculateOrderPrice: mark * (1 -/+ bp/10000), the buy price
\* rounded down and the sell price rounded up to the tick
calculateOrderPrice(side, mark, bp) ==
  IF side = "buy"
  THEN (mark * (10000 - bp)) \div 10000
  ELSE (mark * (10000 + bp) + 9999) \div 10000

\* the gate pausing already at the threshold
GapAtOrAbove(last, mark) == Abs(last - mark) * 10000 >= orderDistanceBp * mark

\* the resume test without the factor 0.8
GapBelowThreshold(last, mark) == Abs(last - mark) * 10000 < orderDistanceBp * mark

\* lastMarkGapBp.gt(orderDistanceBp), with
\* lastMarkGapBp = |last - mark| / mark * 10000
GapAbove(last, mark) == Abs(last - mark) * 10000 > orderDistanceBp * mark

\* lastMarkGapBp.lt(new Decimal(orderDistanceBp).mul(0.8))
GapBelowHysteresis(last, mark) ==
  Abs(last - mark) * 10000 * 10 < 8 * orderDistanceBp * mark

\* the too-close test against orderDistanceBp, inclusive
TooCloseAtTarget(mark, price) == Abs(mark - price) * 10000 <= orderDistanceBp * price
\* distance = |mark - price| / price * 10000;  distance.lt(minDistanceBp)
TooClose(mark, price) == Abs(mark - price) * 10000 < minDistanceBp * price
\* the too-far test against twice maxDistanceBp
TooFarLoose(mark, price) == Abs(mark - price) * 10000 > 2 * maxDistanceBp * price
\* distance.gt(maxDistanceBp)
TooFar(mark, price) == Abs(mark - price) * 10000 > maxDistanceBp * price

IsOpen(o) == o.orderId # 0 /\ o.status = "OPEN"

\* ---------------------------------------------------------------- messages
OrderMsg(id, st, side, q) ==
  [type |-> "order", orderId |-> id, status |-> st, side |-> side, qty |-> q]
PosMsg(q) ==
  [type |-> "position", orderId |-> 0, status |-> "NONE", side |-> "none", qty |-> q]

\* the user streams are subscribed on the market socket: nothing is delivered
\* while it is closed
Notify(msgs) == IF marketUp THEN inbox \cup msgs ELSE inbox

\* ------------------------------------------------------------------- tasks
IdleTask ==
  [pc |-> "idle", kind |-> "none", side |-> "none", qty |-> 0, oid |-> 0,
   px |-> 0, ret |-> "none", seen |-> 0, acts |-> {}]

Idle(t) == task[t].pc = "idle"
\* a new handler invocation takes the first free slot
FreeSlot(t) == Idle(t) /\ \A u \in Tasks : u < t => ~Idle(u)

\* ids of the close orders; limit orders are numbered from 1
CloseId(n) == 100 + n

\* quantities per side, for the history of close calls and of fills
NoQty == [buy |-> 0, sell |-> 0]
AddQty(r, side, q) == [r EXCEPT ![side] = @ + q]

\* ---------------------------------------------------------------- initial
\* the state after `new MakerPointsBot()`
Constructed ==
  /\ isRunning = FALSE /\ stopRequested = FALSE
  /\ isProcessingFill = FALSE /\ isPausedDueToVolatility = FALSE
  /\ markPrice = 0 /\ lastPrice = 0 /\ spreadBid = 0 /\ spreadAsk = 0
  /\ position = 0 /\ buyOrder = NoOrder /\ sellOrder = NoOrder
  /\ stats = [ordersPlaced |-> 0, ordersCanceled |-> 0, ordersFilled |-> 0]
  /\ mode \in Modes
  /\ handlersSet = FALSE /\ marketUp = FALSE /\ isManualClose = FALSE
  /\ orderUp = FALSE /\ reconnectAttempts = 0
  /\ timer = [x \in Streams |-> 0] /\ maxReached = 0
  /\ inbox = {}
  /\ task = [t \in Tasks |-> IdleTask]
  /\ closeCalls = NoQty /\ fills = NoQty /\ startState = "new"
  /\ feed = "none"

\* the venue: the account holds no position and no order
FreshAccount == venuePos = 0 /\ venueOrders = {}

\* the bot is constructed on a fresh account; the venue numbers orders from 1
Init == Constructed /\ FreshAccount /\ nextId = 1 /\ nClosed = 0

\* ------------------------------------------------------- the order gateway
\* OrderManager.placeOrder(side, size, price): the new order, or null
placeOrder(side, p, res) ==
  \/ /\ nextId <= MaxOrders
     /\ res = NewOrder(nextId, p)
     /\ nextId' = nextId + 1
     /\ venueOrders' = venueOrders \cup {[orderId |-> nextId, side |-> side]}
  \/ /\ res = NoOrder
     /\ UNCHANGED <<nextId, venueOrders>>

\* OrderManager.cancelAllOrders(): cancels what rests at the venue, or fails
cancelAllOrders == venueOrders' = {} \/ venueOrders' = venueOrders

\* OrderManager.cancelOrder(id): true when the venue cancelled the order
cancelOrder(id, ok) ==
  \/ /\ ok /\ \E o \in venueOrders : o.orderId = id
     /\ venueOrders' = {o \in venueOrders : o.orderId # id}
  \/ /\ ~ok /\ venueOrders' = venueOrders

\* OrderManager.closePosition(qty, side): an aggressive order that executes
\* at once (true) or is not accepted (false)
closePosition(q, side, ok) ==
  /\ closeCalls' = AddQty(closeCalls, side, q)
  /\ \/ /\ ok /\ nClosed < MaxCloses
        /\ nClosed' = nClosed + 1
        /\ venuePos' = venuePos + (IF side = "buy" THEN q ELSE -q)
        /\ inbox' = Notify({OrderMsg(CloseId(nClosed + 1), "FILLED", side, q),
                            PosMsg(venuePos')})
     \/ /\ ~ok
        /\ UNCHANGED <<nClosed, venuePos, inbox>>

\* ------------------------------------------------------- end of a handler
\* a return of handleOrderFilled without its finally block
FinishKeepsFlag(t) ==
  /\ task' = [task EXCEPT ![t] = IdleTask]
  /\ isProcessingFill' = isProcessingFill
  /\ startState' = IF task[t].kind = "start" THEN "started" ELSE startState
  /\ UNCHANGED feed

\* the handler of task t returns: handleOrderFilled clears the flag in its
\* finally block, start() reports 'started'
Finish(t) ==
  /\ task' = [task EXCEPT ![t] = IdleTask]
  /\ isProcessingFill' = IF task[t].kind = "fill" THEN FALSE ELSE isProcessingFill
  /\ startState' = IF task[t].kind = "start" THEN "started" ELSE startState
  /\ UNCHANGED feed

\* task t goes on to the await named pc
Goto(t, pc) == task' = [task EXCEPT ![t].pc = pc]

priceVars == <<markPrice, lastPrice, spreadBid, spreadAsk>>
slotVars == <<buyOrder, sellOrder>>
runVars == <<isRunning, stopRequested>>
connVars == <<handlersSet, marketUp, isManualClose, reconnVars>>

HasBuy == mode \in {"both", "buy"}
HasSell == mode \in {"both", "sell"}

\* ---------------------------------------------------- calls into procedures
\* closeDetectedPosition(q) up to `await cancelAllOrders()`
EnterFlatten(rec, q) ==
  [rec EXCEPT !.pc = "f_cancel", !.qty = q, !.acts = @ \cup {"flatten"}]

\* placeInitialOrders() up to `await cancelAllOrders()`
EnterPlaceInitial(rec) == [rec EXCEPT !.pc = "i_cancel"]

\* replaceOrder(side, useFreshPrice) up to its first await; order is the slot
\* of that side when the call is made
EnterReplace(rec, side, fresh, order) ==
  IF order.orderId = 0
  THEN [rec EXCEPT !.side = side, !.oid = 0,
                   !.pc = IF fresh THEN "r_fresh0" ELSE "r_place",
                   !.px = calculateOrderPrice(side, markPrice, orderDistanceBp)]
  ELSE [rec EXCEPT !.side = side, !.oid = order.orderId, !.px = markPrice,
                   !.pc = IF fresh THEN "r_fresh1" ELSE "r_cancel"]

\* stop() up to `await cancelAllOrders()`
EnterStop(t, rec) ==
  /\ stopRequested' = TRUE
  /\ isRunning' = FALSE
  /\ task' = [task EXCEPT ![t] = [rec EXCEPT !.pc = "s_cancel"]]

\* --------------------------------------------- checkAndReplaceOrders, checks
\* the spread validation of the buy order with `>` in place of `>=`
CrossesBidStrict(o) ==
  spreadBid # 0 /\ spreadAsk # 0 /\ IsOpen(o) /\ o.price > spreadBid

\* spread known, buy order OPEN and buyPrice.gte(spreadBid)
CrossesBid(o) ==
  spreadBid # 0 /\ spreadAsk # 0 /\ IsOpen(o) /\ o.price >= spreadBid

\* spread known, sell order OPEN and sellPrice.lte(spreadAsk)
CrossesAsk(o) ==
  spreadBid # 0 /\ spreadAsk # 0 /\ IsOpen(o) /\ o.price <= spreadAsk

\* The spread validation and the distance checks, entered at `stage`, with the
\* slots b and s as they are then: the first replaceOrder call they make.
ChecksFrom(stage, b, s) ==
  LET crossBuy == CrossesBid(b)
      crossSell == CrossesAsk(s)
      outBuy == IsOpen(b) /\ (TooClose(markPrice, b.price) \/ TooFar(markPrice, b.price))
      outSell == IsOpen(s) /\ (TooClose(markPrice, s.price) \/ TooFar(markPrice, s.price))
  IN  IF stage = "spread" /\ crossBuy
        THEN [side |-> "buy", ret |-> "done", why |-> "spread"]
      ELSE IF stage = "spread" /\ crossSell
        THEN [side |-> "sell", ret |-> "done", why |-> "spread"]
      ELSE IF stage \in {"spread", "distbuy"} /\ outBuy
        THEN [side |-> "buy", ret |-> "distsell", why |-> "dist"]
      ELSE IF outSell
        THEN [side |-> "sell", ret |-> "done", why |-> "dist"]
      ELSE [side |-> "none", ret |-> "done", why |-> "none"]

\* task t (record rec) runs the checks from `stage` and either suspends in
\* the cancel of a replaceOrder or returns
ContinueChecks(t, rec, stage, b, s) ==
  LET c == ChecksFrom(stage, b, s)
      o == IF c.side = "buy" THEN b ELSE s
  IN  IF c.side = "none"
      THEN Finish(t)
      ELSE /\ task' = [task EXCEPT ![t] =
                 [EnterReplace(rec, c.side, FALSE, o) EXCEPT
                    !.ret = c.ret, !.acts = @ \cup {c.why}]]
           /\ UNCHANGED <<isProcessingFill, startState, feed>>

\* ------------------------------------------------- handleMarkPriceUpdate
\* the guards without the test of isProcessingFill
EvalGuardNoFill(m) == isRunning /\ ~stopRequested /\ m # 0

\* the guards at the head of checkAndReplaceOrders, m the mark price just set
EvalGuard(m) == isRunning /\ ~stopRequested /\ m # 0 /\ ~isProcessingFill

\* history: how the evaluation of a price message with mark price m begins
FeedOutcome(m) ==
  IF ~isRunning \/ stopRequested THEN "stopped"
  ELSE IF m = 0 THEN "zero"
  ELSE IF isProcessingFill THEN "fill"
  ELSE "eval"

\* The feed delivers the price message s.  A message without a mark price
\* makes `new Decimal(undefined)` throw before anything is assigned.
handleMarkPriceUpdate(s) ==
  /\ handlersSet /\ marketUp
  /\ \/ /\ s.mark = -1
        /\ UNCHANGED <<botVars, wsVars, venueVars, task, closeCalls, nClosed,
                       fills, startState>>
     \/ /\ s.mark # -1
        /\ markPrice' = s.mark
        /\ lastPrice' = IF s.last # 0 THEN s.last ELSE lastPrice
        /\ spreadBid' = IF s.bid # 0 /\ s.ask # 0 THEN s.bid ELSE spreadBid
        /\ spreadAsk' = IF s.bid # 0 /\ s.ask # 0 THEN s.ask ELSE spreadAsk
        /\ IF EvalGuard(s.mark)
           THEN \E t \in Tasks :
                  /\ FreeSlot(t)
                  /\ task' = [task EXCEPT ![t] =
                        [IdleTask EXCEPT !.pc = "e_pos", !.kind = "eval"]]
           ELSE UNCHANGED task
        /\ UNCHANGED <<runVars, isProcessingFill, isPausedDueToVolatility,
                       position, slotVars, stats, mode, wsVars, venueVars,
                       closeCalls, nClosed, fills, startState>>

\* the price message s arrives, the history left alone
PriceFeed(s) == handleMarkPriceUpdate(s) /\ UNCHANGED feed

\* the price message s arrives and the history records how its evaluation began
PriceFeedObserved(s) ==
  /\ handleMarkPriceUpdate(s)
  /\ feed' = IF s.mark = -1 THEN feed ELSE FeedOutcome(s.mark)

\* the market socket receives the text w: JSON.parse rejects it and the
\* error is logged, or handleMarkPrice emits 'mark_price' and the bot's
\* handler runs; the history records what became of the message
MarketMessage(w) ==
  IF w = Garbage
  THEN /\ handlersSet /\ marketUp
       /\ feed' = "unparsed"
       /\ UNCHANGED <<botVars, wsVars, venueVars, task, closeCalls, nClosed,
                      fills, startState>>
  ELSE /\ handleMarkPriceUpdate(w)
       /\ feed' = IF w = Malformed THEN "threw" ELSE FeedOutcome(w.mark)

\* ------------------------------------------- checkAndReplaceOrders, resumed
\* a safety check that lets a position of exactly the tolerance pass
PositionGuardStrict(q) == Abs(q) > Eps

\* an evaluation without the safety check
PositionGuardOff(q) == FALSE

\* the safety check on the fresh position
PositionGuard(q) == NonZero(q)

\* the last-mark gap detection: what the evaluation does at the gate
VolatilityGate(last, mark, paused) ==
  IF last = 0 THEN "pass"
  ELSE IF GapAbove(last, mark) THEN (IF ~paused THEN "pause" ELSE "stay")
  ELSE IF paused /\ GapBelowHysteresis(last, mark) THEN "resume"
  ELSE IF paused THEN "still"
  ELSE "pass"

\* getCurrentPosition() has returned
EvalPositionDone(t) ==
  /\ task[t].pc = "e_pos"
  /\ LET q == venuePos
         rec == [task[t] EXCEPT !.seen = q]
         g == VolatilityGate(lastPrice, markPrice, isPausedDueToVolatility)
         gated == [rec EXCEPT !.acts = @ \cup {"gate:" \o g}]
     IN  IF PositionGuard(q)
         THEN /\ task' = [task EXCEPT ![t] = EnterFlatten(rec, q)]
              /\ UNCHANGED <<isPausedDueToVolatility, isProcessingFill, startState, feed>>
         ELSE CASE g = "pause" ->
                     /\ isPausedDueToVolatility' = TRUE
                     /\ task' = [task EXCEPT ![t] = [gated EXCEPT !.pc = "e_pause"]]
                     /\ UNCHANGED <<isProcessingFill, startState, feed>>
                [] g = "resume" ->
                     /\ isPausedDueToVolatility' = FALSE
                     /\ task' = [task EXCEPT ![t] =
                           [gated EXCEPT
                              !.pc = IF HasBuy THEN "e_res_buy" ELSE "e_res_sell",
                              !.px = calculateOrderPrice(
                                       IF HasBuy THEN "buy" ELSE "sell",
                                       markPrice, orderDistanceBp)]]
                     /\ UNCHANGED <<isProcessingFill, startState, feed>>
                [] g \in {"stay", "still"} ->
                     /\ Finish(t)
                     /\ UNCHANGED isPausedDueToVolatility
                [] g = "pass" ->
                     /\ ContinueChecks(t, gated, "spread", buyOrder, sellOrder)
                     /\ UNCHANGED isPausedDueToVolatility
  /\ UNCHANGED <<runVars, priceVars, position, slotVars, stats, mode, wsVars,
                 venueVars, closeCalls, nClosed, fills>>

\* `await cancelAllOrders()` of the pause has returned
EvalPauseDone(t) ==
  /\ task[t].pc = "e_pause"
  /\ cancelAllOrders
  /\ buyOrder' = NoOrder
  /\ sellOrder' = NoOrder
  /\ Finish(t)
  /\ UNCHANGED <<runVars, isPausedDueToVolatility, priceVars, position, stats,
                 mode, wsVars, venuePos, nextId, closeCalls, nClosed, fills>>

\* the buy order of the resume branch has been answered
EvalResumeBuyDone(t) ==
  /\ task[t].pc = "e_res_buy"
  /\ \E res \in {NoOrder, NewOrder(nextId, task[t].px)} :
       /\ placeOrder("buy", task[t].px, res)
       /\ buyOrder' = IF res # NoOrder THEN res ELSE buyOrder
       /\ stats' = IF res # NoOrder
                   THEN [stats EXCEPT !.ordersPlaced = @ + 1] ELSE stats
       /\ LET rec == [task[t] EXCEPT !.acts = @ \cup {"place"}]
          IN  IF HasSell
              THEN /\ task' = [task EXCEPT ![t] =
                         [rec EXCEPT !.pc = "e_res_sell",
                            !.px = calculateOrderPrice("sell", markPrice,
                                                       orderDistanceBp)]]
                   /\ UNCHANGED <<isProcessingFill, startState, feed>>
              ELSE ContinueChecks(t, rec, "spread", buyOrder', sellOrder)
  /\ UNCHANGED <<runVars, isPausedDueToVolatility, priceVars, position,
                 sellOrder, mode, wsVars, venuePos, closeCalls, nClosed, fills>>

\* the sell order of the resume branch has been answered
EvalResumeSellDone(t) ==
  /\ task[t].pc = "e_res_sell"
  /\ \E res \in {NoOrder, NewOrder(nextId, task[t].px)} :
       /\ placeOrder("sell", task[t].px, res)
       /\ sellOrder' = IF res # NoOrder THEN res ELSE sellOrder
       /\ stats' = IF res # NoOrder
                   THEN [stats EXCEPT !.ordersPlaced = @ + 1] ELSE stats
       /\ ContinueChecks(t, [task[t] EXCEPT !.acts = @ \cup {"place"}],
                         "spread", buyOrder, sellOrder')
  /\ UNCHANGED <<runVars, isPausedDueToVolatility, priceVars, position,
                 buyOrder, mode, wsVars, venuePos, closeCalls, nClosed, fills>>

\* ------------------------------------------------------------ replaceOrder
\* replaceOrder has returned to its caller: the distance check of the buy
\* side goes on to the sell side, every other caller returns
AfterReplace(t, rec, b, s) ==
  IF rec.kind = "eval" /\ rec.ret = "distsell"
  THEN ContinueChecks(t, rec, "distsell", b, s)
  ELSE Finish(t)

\* client.getMarkPrice() has answered (useFreshPrice).  Without a tracked
\* order a failure leaves replaceOrder through its catch; with one, the
\* cached price taken before the call is used.
ReplaceFreshDone(t) ==
  /\ task[t].pc \in {"r_fresh0", "r_fresh1"}
  /\ \/ \E f \in FreshMarks :
          /\ markPrice' = f
          /\ task' = [task EXCEPT ![t] =
                IF task[t].pc = "r_fresh0"
                THEN [task[t] EXCEPT !.pc = "r_place", !.acts = @ \cup {"fresh"},
                        !.px = calculateOrderPrice(task[t].side, f, orderDistanceBp)]
                ELSE [task[t] EXCEPT !.pc = "r_cancel", !.px = f,
                        !.acts = @ \cup {"fresh"}]]
          /\ UNCHANGED <<isProcessingFill, startState, feed>>
     \/ /\ task[t].pc = "r_fresh0"
        /\ AfterReplace(t, task[t], buyOrder, sellOrder)
        /\ UNCHANGED markPrice
     \/ /\ task[t].pc = "r_fresh1"
        /\ Goto(t, "r_cancel")
        /\ UNCHANGED <<markPrice, isProcessingFill, startState, feed>>
  /\ UNCHANGED <<runVars, isPausedDueToVolatility, lastPrice, spreadBid,
                 spreadAsk, position, slotVars, stats, mode, wsVars, venueVars,
                 closeCalls, nClosed, fills>>

\* the counter incremented whatever the cancel returned
CountCancelAlways(st, ok) == [st EXCEPT !.ordersCanceled = @ + 1]

\* `if (canceled) { this.state.stats.ordersCanceled++ }`
CountCancel(st, ok) == IF ok THEN [st EXCEPT !.ordersCanceled = @ + 1] ELSE st

\* `await cancelOrder(order.orderId)` has returned
ReplaceCancelDone(t) ==
  /\ task[t].pc = "r_cancel"
  /\ \E ok \in BOOLEAN :
       /\ cancelOrder(task[t].oid, ok)
       /\ stats' = CountCancel(stats, ok)
       /\ task' = [task EXCEPT ![t] =
             [task[t] EXCEPT !.pc = "r_place",
                !.acts = @ \cup {IF ok THEN "canceled" ELSE "cancelfailed"},
                !.px = calculateOrderPrice(task[t].side, task[t].px,
                                           orderDistanceBp)]]
  /\ UNCHANGED <<runVars, isProcessingFill, isPausedDueToVolatility, priceVars,
                 position, slotVars, mode, wsVars, venuePos, nextId, histVars>>

\* `await placeOrder(side, size, newPrice)` of replaceOrder has returned
ReplacePlaceDone(t) ==
  /\ task[t].pc = "r_place"
  /\ \E res \in {NoOrder, NewOrder(nextId, task[t].px)} :
       /\ placeOrder(task[t].side, task[t].px, res)
       /\ buyOrder' = IF res # NoOrder /\ task[t].side = "buy" THEN res ELSE buyOrder
       /\ sellOrder' = IF res # NoOrder /\ task[t].side = "sell" THEN res ELSE sellOrder
       /\ stats' = IF res # NoOrder
                   THEN [stats EXCEPT !.ordersPlaced = @ + 1] ELSE stats
       /\ AfterReplace(t, [task[t] EXCEPT !.acts = @ \cup {"place"}],
                       buyOrder', sellOrder')
  /\ UNCHANGED <<runVars, isPausedDueToVolatility, priceVars, position, mode,
                 wsVars, venuePos, closeCalls, nClosed, fills>>

\* ------------------------------------------------------ placeInitialOrders
\* `await cancelAllOrders()` has returned
InitCancelDone(t) ==
  /\ task[t].pc = "i_cancel"
  /\ cancelAllOrders
  /\ task' = [task EXCEPT ![t] =
        [task[t] EXCEPT
           !.pc = IF HasBuy THEN "i_buy" ELSE "i_sell",
           !.px = calculateOrderPrice(IF HasBuy THEN "buy" ELSE "sell",
                                      markPrice, orderDistanceBp)]]
  /\ UNCHANGED <<botVars, wsVars, venuePos, nextId, histVars>>

\* the buy order has been answered
InitBuyDone(t) ==
  /\ task[t].pc = "i_buy"
  /\ \E res \in {NoOrder, NewOrder(nextId, task[t].px)} :
       /\ placeOrder("buy", task[t].px, res)
       /\ buyOrder' = IF res # NoOrder THEN res ELSE buyOrder
       /\ stats' = IF res # NoOrder
                   THEN [stats EXCEPT !.ordersPlaced = @ + 1] ELSE stats
  /\ IF HasSell
     THEN /\ task' = [task EXCEPT ![t] =
                [task[t] EXCEPT !.pc = "i_sell", !.acts = @ \cup {"place"},
                   !.px = calculateOrderPrice("sell", markPrice, orderDistanceBp)]]
          /\ UNCHANGED <<isProcessingFill, startState, feed>>
     ELSE Finish(t)
  /\ UNCHANGED <<runVars, isPausedDueToVolatility, priceVars, position,
                 sellOrder, mode, wsVars, venuePos, closeCalls, nClosed, fills>>

\* the sell order has been answered
InitSellDone(t) ==
  /\ task[t].pc = "i_sell"
  /\ \E res \in {NoOrder, NewOrder(nextId, task[t].px)} :
       /\ placeOrder("sell", task[t].px, res)
       /\ sellOrder' = IF res # NoOrder THEN res ELSE sellOrder
       /\ stats' = IF res # NoOrder
                   THEN [stats EXCEPT !.ordersPlaced = @ + 1] ELSE stats
  /\ Finish(t)
  /\ UNCHANGED <<runVars, isPausedDueToVolatility, priceVars, position,
                 buyOrder, mode, wsVars, venuePos, closeCalls, nClosed, fills>>

\* ------------------------------------------------------- handleOrderUpdate
\* the slot with the status of a matching order_update written into it
Tracked(o, msg) ==
  IF o.orderId # 0 /\ o.orderId = msg.orderId
  THEN [o EXCEPT !.status = msg.status, !.filledQty = msg.qty]
  ELSE o

\* handleOrderFilled without its guard
FillInProgressIgnored == FALSE

\* the guard at the head of handleOrderFilled
FillInProgress == isProcessingFill

\* The order_update msg is delivered.  A FILLED status calls
\* handleOrderFilled, which runs up to `await closePosition(qty, closeSide)`.
handleOrderUpdate(msg) ==
  /\ handlersSet /\ marketUp
  /\ msg \in inbox /\ msg.type = "order"
  /\ inbox' = inbox \ {msg}
  /\ buyOrder' = Tracked(buyOrder, msg)
  /\ sellOrder' = Tracked(sellOrder, msg)
  /\ IF msg.status = "FILLED" /\ ~FillInProgress
     THEN \E t \in Tasks :
            /\ FreeSlot(t)
            /\ isProcessingFill' = TRUE
            /\ stats' = [stats EXCEPT !.ordersFilled = @ + 1]
            /\ position' = IF msg.side = "buy" THEN position + msg.qty
                                               ELSE position - msg.qty
            /\ task' = [task EXCEPT ![t] =
                  [IdleTask EXCEPT !.pc = "h_close", !.kind = "fill",
                     !.side = msg.side, !.qty = msg.qty, !.oid = msg.orderId]]
     ELSE UNCHANGED <<isProcessingFill, stats, position, task>>
  /\ UNCHANGED <<runVars, isPausedDueToVolatility, priceVars, mode, connVars,
                 venueVars, histVars>>

\* `await closePosition(qty, closeSide)` of handleOrderFilled has returned
FillCloseDone(t) ==
  /\ task[t].pc = "h_close"
  /\ \E ok \in BOOLEAN :
       /\ closePosition(task[t].qty, Opposite(task[t].side), ok)
       /\ IF ok
          THEN /\ position' = 0
               /\ buyOrder' = IF task[t].side = "buy" /\ buyOrder.orderId # 0
                                 /\ buyOrder.orderId = task[t].oid
                              THEN NoOrder ELSE buyOrder
               /\ sellOrder' = IF task[t].side = "sell" /\ sellOrder.orderId # 0
                                  /\ sellOrder.orderId = task[t].oid
                               THEN NoOrder ELSE sellOrder
               /\ task' = [task EXCEPT ![t] =
                     [task[t] EXCEPT !.pc = "h_wait", !.acts = @ \cup {"close"}]]
               /\ UNCHANGED runVars
          ELSE /\ EnterStop(t, [task[t] EXCEPT !.acts = @ \cup {"closefailed"}])
               /\ UNCHANGED <<position, slotVars>>
  /\ UNCHANGED <<isProcessingFill, isPausedDueToVolatility, priceVars, stats,
                 mode, connVars, venueOrders, nextId, fills, startState, feed>>

\* the 10 s cooldown has elapsed
FillWaitDone(t) ==
  /\ task[t].pc = "h_wait"
  /\ IF ~isRunning \/ stopRequested
     THEN Finish(t)
     ELSE Goto(t, "h_pos") /\ UNCHANGED <<isProcessingFill, startState, feed>>
  /\ UNCHANGED <<runVars, isPausedDueToVolatility, priceVars, position,
                 slotVars, stats, mode, wsVars, venueVars, closeCalls, nClosed, fills>>

\* getCurrentPosition() after the cooldown has returned
FillPositionDone(t) ==
  /\ task[t].pc = "h_pos"
  /\ task' = [task EXCEPT ![t] =
        IF NonZero(venuePos)
        THEN EnterFlatten(task[t], venuePos)
        ELSE EnterReplace(task[t], task[t].side, TRUE,
                          IF task[t].side = "buy" THEN buyOrder ELSE sellOrder)]
  /\ UNCHANGED <<botVars, wsVars, venueVars, histVars>>

\* --------------------------------------------------- closeDetectedPosition
\* `await cancelAllOrders()` has returned
FlattenCancelDone(t) ==
  /\ task[t].pc = "f_cancel"
  /\ cancelAllOrders
  /\ Goto(t, "f_close")
  /\ UNCHANGED <<botVars, wsVars, venuePos, nextId, histVars>>

\* a close on the side of the position itself
closeSideSame(p) == IF p > 0 THEN "buy" ELSE "sell"

\* `const closeSide = position.gt(0) ? 'sell' : 'buy'`
closeSide(p) == IF p > 0 THEN "sell" ELSE "buy"

\* `await closePosition(positionSize, closeSide)` has returned
FlattenCloseDone(t) ==
  /\ task[t].pc = "f_close"
  /\ \E ok \in BOOLEAN :
       /\ closePosition(Abs(task[t].qty), closeSide(task[t].qty), ok)
       /\ IF ok
          THEN /\ position' = 0
               /\ task' = [task EXCEPT ![t] =
                     [task[t] EXCEPT !.pc = "f_wait", !.acts = @ \cup {"close"}]]
               /\ UNCHANGED runVars
          ELSE /\ EnterStop(t, [task[t] EXCEPT !.acts = @ \cup {"closefailed"}])
               /\ UNCHANGED position
  /\ UNCHANGED <<isProcessingFill, isPausedDueToVolatility, priceVars, slotVars,
                 stats, mode, connVars, venueOrders, nextId, fills, startState, feed>>

\* the 5 s delay has elapsed: placeInitialOrders()
FlattenWaitDone(t) ==
  /\ task[t].pc = "f_wait"
  /\ task' = [task EXCEPT ![t] = EnterPlaceInitial(task[t])]
  /\ UNCHANGED <<botVars, wsVars, venueVars, histVars>>

\* -------------------------------------------------------------------- stop
\* `await cancelAllOrders()` of stop() has returned: ws.disconnect()
StopCancelDone(t) ==
  /\ task[t].pc = "s_cancel"
  /\ cancelAllOrders
  /\ isManualClose' = TRUE
  /\ marketUp' = FALSE /\ orderUp' = FALSE
  /\ inbox' = {}
  /\ Finish(t)
  /\ UNCHANGED <<runVars, isPausedDueToVolatility, priceVars, position,
                 slotVars, stats, mode, handlersSet, venuePos, nextId,
                 reconnectAttempts, timer, maxReached,
                 closeCalls, nClosed, fills>>

\* the operator stops the bot (SIGINT, dashboard)
UserStop(t) ==
  /\ startState = "started" /\ ~stopRequested
  /\ FreeSlot(t)
  /\ EnterStop(t, [IdleTask EXCEPT !.kind = "stop"])
  /\ UNCHANGED <<isProcessingFill, isPausedDueToVolatility, priceVars, position,
                 slotVars, stats, mode, wsVars, venueVars, histVars>>

\* ---------------------------------------------------- handlePositionUpdate
\* The position_update msg is delivered; a change from zero to non-zero calls
\* closeDetectedPosition.
handlePositionUpdate(msg) ==
  /\ handlersSet /\ marketUp
  /\ msg \in inbox /\ msg.type = "position"
  /\ inbox' = inbox \ {msg}
  /\ position' = msg.qty
  /\ IF ~NonZero(position) /\ NonZero(msg.qty)
     THEN \E t \in Tasks :
            /\ FreeSlot(t)
            /\ task' = [task EXCEPT ![t] =
                  EnterFlatten([IdleTask EXCEPT !.kind = "posupd"], msg.qty)]
     ELSE UNCHANGED task
  /\ UNCHANGED <<runVars, isProcessingFill, isPausedDueToVolatility, priceVars,
                 slotVars, stats, mode, connVars, venueVars, histVars>>

\* ------------------------------------------------------- the market socket
\* 2^k
RECURSIVE Pow2(_)
Pow2(k) == IF k = 0 THEN 1 ELSE 2 * Pow2(k - 1)

\* Math.min(reconnectDelay * Math.pow(2, n), 30000); the product is formed
\* only where it is the smaller one (it would leave the machine integers)
Backoff(n) ==
  IF Pow2(n) > MaxBackoff \div reconnectDelay
  THEN MaxBackoff
  ELSE reconnectDelay * Pow2(n)

\* scheduleReconnect(stream), called by the close handler of a socket
scheduleReconnect(x) ==
  IF reconnectAttempts >= maxReconnectAttempts
  THEN /\ maxReached' = maxReached + 1
       /\ timer' = [timer EXCEPT ![x] = 0]
       /\ UNCHANGED reconnectAttempts
  ELSE /\ timer' = [timer EXCEPT ![x] = Backoff(reconnectAttempts)]
       /\ reconnectAttempts' = reconnectAttempts + 1
       /\ UNCHANGED maxReached

\* the market stream closes; messages in flight are lost
MarketClose ==
  /\ marketUp /\ ~isManualClose
  /\ marketUp' = FALSE
  /\ inbox' = {}
  /\ scheduleReconnect("market")
  /\ UNCHANGED <<botVars, handlersSet, isManualClose, orderUp, venueVars, task,
                 histVars>>

\* the order response stream closes
OrderClose ==
  /\ orderUp /\ ~isManualClose
  /\ orderUp' = FALSE
  /\ scheduleReconnect("order")
  /\ UNCHANGED <<botVars, handlersSet, marketUp, isManualClose, inbox, venueVars,
                 task, histVars>>

\* the timer callback with its test of isManualClose left out
RetrySuppressedNever == FALSE

\* `if (this.isManualClose) return;` at the head of the timer callback
RetrySuppressed == isManualClose

\* the retry timer of a stream fires after disconnect(): the callback returns
RetryDropped(x) ==
  /\ timer[x] > 0 /\ RetrySuppressed
  /\ timer' = [timer EXCEPT ![x] = 0]
  /\ UNCHANGED <<botVars, handlersSet, marketUp, isManualClose, inbox, orderUp,
                 reconnectAttempts, maxReached, venueVars, task, histVars>>

\* the retry timer of a stream fires and the new socket closes without
\* having opened: its close handler schedules the next retry
RetryFails(x) ==
  /\ timer[x] > 0 /\ ~RetrySuppressed /\ ~isManualClose
  /\ scheduleReconnect(x)
  /\ UNCHANGED <<botVars, handlersSet, marketUp, isManualClose, inbox, orderUp,
                 venueVars, task, histVars>>

\* the retry timer reconnects the market stream: 'market_reconnected' runs
\* the resubscription and placeInitialOrders()
MarketReconnected(t) ==
  /\ handlersSet /\ timer["market"] > 0 /\ ~RetrySuppressed
  /\ FreeSlot(t)
  /\ marketUp' = TRUE
  /\ reconnectAttempts' = 0
  /\ timer' = [timer EXCEPT !["market"] = 0]
  /\ task' = [task EXCEPT ![t] =
        EnterPlaceInitial([IdleTask EXCEPT !.kind = "reconn"])]
  /\ UNCHANGED <<botVars, handlersSet, isManualClose, inbox, orderUp, maxReached,
                 venueVars, histVars>>

\* the retry timer reconnects the order response stream; nothing listens to
\* 'order_reconnected', and the attempt counter keeps its value
OrderReconnected ==
  /\ timer["order"] > 0 /\ ~RetrySuppressed
  /\ orderUp' = TRUE
  /\ timer' = [timer EXCEPT !["order"] = 0]
  /\ UNCHANGED <<botVars, handlersSet, marketUp, isManualClose, inbox,
                 reconnectAttempts, maxReached, venueVars, task, histVars>>

\* ---------------------------------------------------------------- the venue
\* a resting limit order of the bot is executed in full
VenueFill(o) ==
  /\ o \in venueOrders
  /\ venueOrders' = venueOrders \ {o}
  /\ venuePos' = venuePos + (IF o.side = "buy" THEN OrderSize ELSE -OrderSize)
  /\ fills' = AddQty(fills, o.side, OrderSize)
  /\ inbox' = Notify({OrderMsg(o.orderId, "FILLED", o.side, OrderSize),
                      PosMsg(venuePos')})
  /\ UNCHANGED <<botVars, connVars, nextId, task, closeCalls, nClosed, startState, feed>>

\* ------------------------------------------------------------------- start
\* start() up to `await auth.loginWithPrivateKey(...)`
Start(t) ==
  /\ startState = "new"
  /\ FreeSlot(t)
  /\ stopRequested' = FALSE
  /\ startState' = "starting" /\ UNCHANGED feed
  /\ task' = [task EXCEPT ![t] = [IdleTask EXCEPT !.pc = "st_auth", !.kind = "start"]]
  /\ UNCHANGED <<isRunning, isProcessingFill, isPausedDueToVolatility, priceVars,
                 position, slotVars, stats, mode, wsVars, venueVars, closeCalls,
                 nClosed, fills>>

\* start() has thrown: the task ends, isRunning was never set
StartFailed(t) ==
  /\ task' = [task EXCEPT ![t] = IdleTask]
  /\ startState' = "failed" /\ UNCHANGED feed

\* login, client initialisation and ws.connect() have returned or thrown; on
\* success the channels are subscribed and the handlers installed
StartAuthDone(t) ==
  /\ task[t].pc = "st_auth"
  /\ \/ /\ handlersSet' = TRUE /\ marketUp' = TRUE /\ isManualClose' = FALSE
        /\ orderUp' = TRUE /\ reconnectAttempts' = 0
        /\ UNCHANGED <<timer, maxReached>>
        /\ Goto(t, "st_wait")
        /\ UNCHANGED <<startState, feed>>
     \/ /\ StartFailed(t)
        /\ UNCHANGED connVars
  /\ UNCHANGED <<botVars, inbox, venueVars, closeCalls, nClosed, fills>>

\* waitForMarkPrice() returning at once, whatever the mark price
StartWaitDoneNoCheck(t) ==
  /\ task[t].pc = "st_wait"
  /\ Goto(t, "st_pos") /\ UNCHANGED <<startState, feed>>
  /\ UNCHANGED <<botVars, wsVars, venueVars, closeCalls, nClosed, fills>>

\* waitForMarkPrice(): the loop ends when a mark price is there, and throws
\* after 10 s without one; then ensureZeroPosition() queries the position
StartWaitDone(t) ==
  /\ task[t].pc = "st_wait"
  /\ IF markPrice # 0
     THEN Goto(t, "st_pos") /\ UNCHANGED <<startState, feed>>
     ELSE StartFailed(t)
  /\ UNCHANGED <<botVars, wsVars, venueVars, closeCalls, nClosed, fills>>

\* client.getPosition() of ensureZeroPosition has returned
StartPositionDone(t) ==
  /\ task[t].pc = "st_pos"
  /\ IF Abs(venuePos) > 0
     THEN /\ task' = [task EXCEPT ![t] = [task[t] EXCEPT !.pc = "st_close",
                                                         !.qty = venuePos]]
          /\ UNCHANGED isRunning
     ELSE /\ isRunning' = TRUE
          /\ task' = [task EXCEPT ![t] = EnterPlaceInitial(task[t])]
  /\ UNCHANGED <<stopRequested, isProcessingFill, isPausedDueToVolatility,
                 priceVars, position, slotVars, stats, mode, wsVars, venueVars,
                 histVars>>

\* closePosition() of ensureZeroPosition has returned
StartCloseDone(t) ==
  /\ task[t].pc = "st_close"
  /\ \E ok \in BOOLEAN :
       /\ closePosition(Abs(task[t].qty),
                        IF task[t].qty > 0 THEN "sell" ELSE "buy", ok)
       /\ IF ok
          THEN /\ isRunning' = TRUE
               /\ task' = [task EXCEPT ![t] = EnterPlaceInitial(task[t])]
               /\ UNCHANGED <<startState, feed>>
          ELSE /\ StartFailed(t)
               /\ UNCHANGED isRunning
  /\ UNCHANGED <<stopRequested, isProcessingFill, isPausedDueToVolatility,
                 priceVars, position, slotVars, stats, mode, connVars,
                 venueOrders, nextId, fills>>

\* ------------------------------------------------------------ specification
\* start(), on an account without a position
StartSteps ==
  \/ \E t \in Tasks : Start(t)
  \/ \E t \in Tasks : StartAuthDone(t)
  \/ \E t \in Tasks : StartWaitDone(t)
  \/ \E t \in Tasks : StartPositionDone(t)

\* placeInitialOrders(), resumed
InitSteps ==
  \/ \E t \in Tasks : InitCancelDone(t)
  \/ \E t \in Tasks : InitBuyDone(t)
  \/ \E t \in Tasks : InitSellDone(t)

\* replaceOrder(), resumed
ReplaceSteps ==
  \/ \E t \in Tasks : ReplaceFreshDone(t)
  \/ \E t \in Tasks : ReplaceCancelDone(t)
  \/ \E t \in Tasks : ReplacePlaceDone(t)

\* fills at the venue, the user streams and what they trigger
FillSteps ==
  \/ \E o \in venueOrders : VenueFill(o)
  \/ \E msg \in inbox : handleOrderUpdate(msg)
  \/ \E msg \in inbox : handlePositionUpdate(msg)
  \/ \E t \in Tasks : FillCloseDone(t)
  \/ \E t \in Tasks : FillWaitDone(t)
  \/ \E t \in Tasks : FillPositionDone(t)
  \/ \E t \in Tasks : FlattenCancelDone(t)
  \/ \E t \in Tasks : FlattenCloseDone(t)
  \/ \E t \in Tasks : FlattenWaitDone(t)
  \/ \E t \in Tasks : StopCancelDone(t)

\* The bot with a calm feed, its orders being filled at the venue.
Next ==
  \/ StartSteps
  \/ InitSteps
  \/ \E s \in FillSnapshots : PriceFeed(s)
  \/ \E t \in Tasks : EvalPositionDone(t)
  \/ ReplaceSteps
  \/ FillSteps

Spec == Init /\ [][Next]_vars

\* The bot with a feed whose last-mark gap moves around the volatility
\* thresholds, the market socket closing and reconnecting; nothing is filled.
NextVol ==
  \/ StartSteps
  \/ InitSteps
  \/ \E s \in VolSnapshots : PriceFeed(s)
  \/ \E t \in Tasks : EvalPositionDone(t)
  \/ \E t \in Tasks : EvalPauseDone(t)
  \/ \E t \in Tasks : EvalResumeBuyDone(t)
  \/ \E t \in Tasks : EvalResumeSellDone(t)
  \/ MarketClose
  \/ \E t \in Tasks : MarketReconnected(t)

SpecVol == Init /\ [][NextVol]_vars

\* The bot on a venue that accepts a single order more, the feed also
\* delivering a zero mark price, the history recording how each evaluation
\* began.
InitGuard == Constructed /\ FreshAccount /\ nextId = MaxOrders /\ nClosed = 0

NextGuard ==
  \/ StartSteps
  \/ InitSteps
  \/ \E s \in GuardSnapshots : PriceFeedObserved(s)
  \/ \E t \in Tasks : EvalPositionDone(t)
  \/ \E t \in Tasks : EvalPauseDone(t)
  \/ \E t \in Tasks : EvalResumeBuyDone(t)
  \/ \E t \in Tasks : EvalResumeSellDone(t)
  \/ ReplaceSteps
  \/ FillSteps

SpecGuard == InitGuard /\ [][NextGuard]_vars

\* start() on an account that may hold a position from an earlier run
InitStart ==
  /\ Constructed /\ venuePos \in StartPositions /\ venueOrders = {}
  /\ nextId = 1 /\ nClosed = 0

NextStart ==
  \/ Next
  \/ \E t \in Tasks : StartCloseDone(t)

SpecStart == InitStart /\ [][NextStart]_vars

\* The two sockets after start() has connected them: they close, their
\* retries fail or succeed.  No price message arrives.
NextWs ==
  \/ \E t \in Tasks : Start(t)
  \/ \E t \in Tasks : StartAuthDone(t)
  \/ \E t \in Tasks : StartWaitDone(t)
  \/ InitSteps
  \/ MarketClose
  \/ OrderClose
  \/ \E x \in Streams : RetryFails(x)
  \/ \E t \in Tasks : MarketReconnected(t)
  \/ OrderReconnected

SpecWs == Init /\ [][NextWs]_vars

\* The buy-only bot after start() has returned, its order resting: the
\* streams close and reconnect, and the operator stops the bot.
InitStop ==
  /\ isRunning = TRUE /\ stopRequested = FALSE
  /\ isProcessingFill = FALSE /\ isPausedDueToVolatility = FALSE
  /\ markPrice = Calm.mark /\ lastPrice = Calm.last
  /\ spreadBid = Calm.bid /\ spreadAsk = Calm.ask
  /\ position = 0 /\ sellOrder = NoOrder
  /\ buyOrder = NewOrder(1, calculateOrderPrice("buy", Calm.mark, orderDistanceBp))
  /\ stats = [ordersPlaced |-> 1, ordersCanceled |-> 0, ordersFilled |-> 0]
  /\ mode = "buy"
  /\ handlersSet = TRUE /\ marketUp = TRUE /\ isManualClose = FALSE
  /\ orderUp = TRUE /\ reconnectAttempts = 0
  /\ timer = [x \in Streams |-> 0] /\ maxReached = 0
  /\ inbox = {}
  /\ task = [t \in Tasks |-> IdleTask]
  /\ closeCalls = NoQty /\ fills = NoQty /\ startState = "started"
  /\ feed = "none"
  /\ venuePos = 0 /\ venueOrders = {[orderId |-> 1, side |-> "buy"]}
  /\ nextId = 2 /\ nClosed = 0

NextStop ==
  \/ \E t \in Tasks : UserStop(t)
  \/ \E t \in Tasks : StopCancelDone(t)
  \/ \E t \in Tasks : InitCancelDone(t)
  \/ \E t \in Tasks : InitBuyDone(t)
  \/ MarketClose
  \/ OrderClose
  \/ \E x \in Streams : RetryFails(x)
  \/ \E x \in Streams : RetryDropped(x)
  \/ \E t \in Tasks : MarketReconnected(t)
  \/ OrderReconnected

SpecStop == InitStop /\ [][NextStop]_vars

\* The quoting bot and the texts that arrive on its market socket, some of
\* them not JSON, some of them price messages without a mark price.
NextFeed ==
  \/ StartSteps
  \/ InitSteps
  \/ \E w \in WireMessages : MarketMessage(w)
  \/ \E t \in Tasks : EvalPositionDone(t)
  \/ \E t \in Tasks : ReplaceCancelDone(t)
  \/ \E t \in Tasks : ReplacePlaceDone(t)

SpecFeed == Init /\ [][NextFeed]_vars

\* The quoting bot in a market that moves: no fill happens, the volatility
\* gate passes every message (last price = mark price).
NextBand ==
  \/ StartSteps
  \/ InitSteps
  \/ \E s \in BandSnapshots : PriceFeedObserved(s)
  \/ \E t \in Tasks : EvalPositionDone(t)
  \/ \E t \in Tasks : ReplaceCancelDone(t)
  \/ \E t \in Tasks : ReplacePlaceDone(t)

SpecBand == Init /\ [][NextBand]_vars

\* The buy-only bot after start() has returned: it is running and its buy
\* order rests at the venue, 20 bp below the mark price 10000.  The price
\* channel is silent, and the venue accepts CloseCredit closes more, so that
\* the FILLED notifications of the bot's own close orders are followed up.
InitOneSided ==
  /\ isRunning = TRUE /\ stopRequested = FALSE
  /\ isProcessingFill = FALSE /\ isPausedDueToVolatility = FALSE
  /\ markPrice = Calm.mark /\ lastPrice = Calm.last
  /\ spreadBid = Calm.bid /\ spreadAsk = Calm.ask
  /\ position = 0 /\ sellOrder = NoOrder
  /\ buyOrder = NewOrder(1, calculateOrderPrice("buy", Calm.mark, orderDistanceBp))
  /\ stats = [ordersPlaced |-> 1, ordersCanceled |-> 0, ordersFilled |-> 0]
  /\ mode = "buy"
  /\ handlersSet = TRUE /\ marketUp = TRUE /\ isManualClose = FALSE
  /\ orderUp = TRUE /\ reconnectAttempts = 0
  /\ timer = [x \in Streams |-> 0] /\ maxReached = 0
  /\ inbox = {}
  /\ task = [t \in Tasks |-> IdleTask]
  /\ closeCalls = NoQty /\ fills = NoQty /\ startState = "started"
  /\ feed = "none"
  /\ venuePos = 0 /\ venueOrders = {[orderId |-> 1, side |-> "buy"]}
  /\ nextId = 2 /\ nClosed = -CloseCredit

NextOneSided ==
  \/ \E t \in Tasks : ReplaceFreshDone(t)
  \/ \E t \in Tasks : ReplacePlaceDone(t)
  \/ FillSteps

SpecOneSided == InitOneSided /\ [][NextOneSided]_vars

\* The buy-only bot after start() has returned, its order being filled while
\* the position notification flattens and re-quotes alongside the fill
\* handler.
NextRequote ==
  \/ NextOneSided
  \/ \E t \in Tasks : InitCancelDone(t)
  \/ \E t \in Tasks : InitBuyDone(t)
  \/ \E t \in Tasks : ReplaceCancelDone(t)

SpecRequote == InitOneSided /\ [][NextRequote]_vars

\* The quoting bot in a market that moves, under fairness: price messages
\* keep arriving, every suspended handler is resumed, and a placement that
\* is asked for again and again is accepted in the end.
NextRetry ==
  \/ StartSteps
  \/ InitSteps
  \/ \E s \in BandSnapshots : PriceFeed(s)
  \/ \E t \in Tasks : EvalPositionDone(t)
  \/ \E t \in Tasks : ReplaceCancelDone(t)
  \/ \E t \in Tasks : ReplacePlaceDone(t)

\* task t is resumed from the await it is suspended in
Resume(t) ==
  \/ StartAuthDone(t) \/ StartWaitDone(t) \/ StartPositionDone(t)
  \/ InitCancelDone(t) \/ InitBuyDone(t) \/ InitSellDone(t)
  \/ EvalPositionDone(t) \/ ReplaceCancelDone(t) \/ ReplacePlaceDone(t)

\* the gateway accepts the order that task t has submitted
PlaceAccepted(t) ==
  /\ InitBuyDone(t) \/ InitSellDone(t) \/ ReplacePlaceDone(t)
  /\ nextId' # nextId

FairRetry ==
  /\ \A s \in BandSnapshots : WF_vars(PriceFeed(s))
  /\ \A t \in Tasks : WF_vars(Resume(t))
  /\ \A t \in Tasks : SF_vars(PlaceAccepted(t))

SpecRetry == Init /\ [][NextRetry]_vars /\ FairRetry

\* The quoting bot pausing and resuming in a market that also moves, no fill
\* happening.
NextResume ==
  \/ StartSteps
  \/ InitSteps
  \/ \E s \in ResumeSnapshots : PriceFeed(s)
  \/ \E t \in Tasks : EvalPositionDone(t)
  \/ \E t \in Tasks : EvalPauseDone(t)
  \/ \E t \in Tasks : EvalResumeBuyDone(t)
  \/ \E t \in Tasks : EvalResumeSellDone(t)
  \/ \E t \in Tasks : ReplaceCancelDone(t)
  \/ \E t \in Tasks : ReplacePlaceDone(t)

SpecResume == Init /\ [][NextResume]_vars

\* The same, every gateway call and every delay of a handler returning.
ResumeFill(t) ==
  \/ FillCloseDone(t) \/ FillWaitDone(t) \/ FillPositionDone(t)
  \/ FlattenCancelDone(t) \/ FlattenCloseDone(t) \/ FlattenWaitDone(t)
  \/ StopCancelDone(t)
  \/ InitCancelDone(t) \/ InitBuyDone(t)
  \/ ReplaceFreshDone(t) \/ ReplaceCancelDone(t) \/ ReplacePlaceDone(t)

FairFill == \A t \in Tasks : WF_vars(ResumeFill(t))

SpecFillFair == InitOneSided /\ [][NextRequote]_vars /\ FairFill

\* The filled bot with a calm feed, under fairness: calm price messages keep
\* arriving and every suspended handler is resumed.  Notifications of the
\* venue may stay undelivered.
ResumeAny(t) == Resume(t) \/ ResumeFill(t)

FairBackstop ==
  /\ WF_vars(PriceFeed(Calm))
  /\ \A t \in Tasks : WF_vars(ResumeAny(t))

SpecBackstop == Init /\ [][Next]_vars /\ FairBackstop

\* ================================================================== claims
\* every handler has returned and no notification is in flight
Settled == inbox = {} /\ \A t \in Tasks : Idle(t)

\* the quantity of the close call that task t awaits on side `side`
Closing(t, side) ==
  IF task[t].pc = "h_close" /\ Opposite(task[t].side) = side THEN task[t].qty
  ELSE IF task[t].pc = "f_close" /\ side = (IF task[t].qty > 0 THEN "sell" ELSE "buy")
       THEN Abs(task[t].qty)
  ELSE 0

\* the quantity of all close calls issued on `side`, returned or awaited
RECURSIVE Awaited(_, _)
Awaited(ts, side) ==
  IF ts = {} THEN 0
  ELSE LET t == CHOOSE x \in ts : TRUE
       IN  Closing(t, side) + Awaited(ts \ {t}, side)

CloseIssued(side) == closeCalls[side] + Awaited(Tasks, side)

\* C1: each fill of a resting order is offset by exactly one close call, in
\* whichever order the fill notification, the position notification and the
\* position guard come: never more close quantity issued than was filled on
\* the opposite side, and as much once the bot, still running, has handled
\* everything.
C1_OneClosePerFill ==
  /\ CloseIssued("sell") <= fills["buy"]
  /\ CloseIssued("buy") <= fills["sell"]
  /\ (Settled /\ isRunning /\ marketUp) =>
        /\ closeCalls["sell"] = fills["buy"]
        /\ closeCalls["buy"] = fills["sell"]

\* a FILLED notification leaves the inbox while a fill is being handled
FilledWhileHandling ==
  /\ isProcessingFill /\ marketUp'
  /\ \E msg \in inbox :
       msg.type = "order" /\ msg.status = "FILLED" /\ inbox' = inbox \ {msg}

\* what a dropped notification leaves alone besides the slots
DroppedFrame ==
  UNCHANGED <<position, stats, isProcessingFill, task, venueVars, closeCalls, nClosed>>

FillHandlers == {t \in Tasks : task[t].kind = "fill"}

\* C2: at most one handleOrderFilled is active, and it is active exactly
\* while isProcessingFill is set.  A FILLED notification arriving meanwhile
\* starts no handler and no gateway call and changes neither the tracked
\* position nor the ordersFilled counter; both slots keep referring to the
\* same orders at the same prices (handleOrderUpdate may still have written
\* the reported status and filled quantity into the slot of that order).
C2_SingleFillHandler ==
  /\ [](Cardinality(FillHandlers) <= 1 /\ (isProcessingFill <=> FillHandlers # {}))
  /\ [][FilledWhileHandling =>
          /\ DroppedFrame
          /\ buyOrder'.orderId = buyOrder.orderId /\ buyOrder'.price = buyOrder.price
          /\ sellOrder'.orderId = sellOrder.orderId /\ sellOrder'.price = sellOrder.price]_vars

\* C2 as stated: the dropped notification leaves the order slots as they were
C2_DroppedLeavesSlots ==
  [][FilledWhileHandling => DroppedFrame /\ UNCHANGED slotVars]_vars

\* both resting orders were filled and both notifications delivered, the
\* second while the first was being handled: one fill counted, one slot
\* marked FILLED
C2_Witness ==
  /\ isProcessingFill /\ marketUp
  /\ fills["buy"] + fills["sell"] = 2
  /\ \A msg \in inbox : msg.type # "order"
  /\ nClosed = 0
  /\ stats.ordersFilled = 1
  /\ buyOrder.status = "FILLED" /\ sellOrder.status = "FILLED"

\* the awaits of OrderManager.placeOrder
PlacePcs == {"i_buy", "i_sell", "r_place", "e_res_buy", "e_res_sell"}
\* task t submits a resting limit order in this step
Submits(t) == task'[t].pc \in PlacePcs /\ task'[t].pc # task[t].pc
\* the awaits of OrderManager.closePosition
ClosePcs == {"h_close", "f_close"}
\* task t issues a close call in this step
Closes(t) == task'[t].pc \in ClosePcs /\ task'[t].pc # task[t].pc

\* C3: a resting limit order is submitted only while the tracked position
\* is zero, whatever triggers the placement.
C3_PlaceOnlyWhenFlat ==
  [][\A t \in Tasks : Submits(t) => position' = 0]_vars

\* C4: once a close has failed and stop() has set stopRequested and cleared
\* isRunning, no close call and no limit order is issued any more.  (Here
\* stop() is entered from the failure paths only.)
C4_NothingAfterFatalStop ==
  [][(stopRequested /\ ~isRunning) =>
        \A t \in Tasks : ~Submits(t) /\ ~Closes(t)]_vars

\* the handler of task t returns from stop()
StopReturns(t) == task[t].pc = "s_cancel" /\ task'[t].pc = "idle"

\* C5: when a fatal path has run to its end the bot is not running and both
\* order slots are null.
C5_FatalLeavesNoOrders ==
  [][\A t \in Tasks : StopReturns(t) =>
        ~isRunning' /\ buyOrder' = NoOrder /\ sellOrder' = NoOrder]_vars

\* task t of an evaluation gets the answer of its position query
Evaluates(t) == task[t].pc = "e_pos" /\ task'[t].pc # "e_pos"
\* the answer is a flat position and a last price is known: the volatility
\* gate is reached
ReachesGate(t) == Evaluates(t) /\ Abs(venuePos) < Eps /\ lastPrice # 0
\* |last - mark| / mark * 10000 against orderDistanceBp and 0.8 of it
GapOver == Abs(lastPrice - markPrice) * 10000 > orderDistanceBp * markPrice
GapCalm == Abs(lastPrice - markPrice) * 100000 < 8 * orderDistanceBp * markPrice

\* C6: the pause flag, once set, is cleared only by an evaluation whose gap
\* is below 0.8 * orderDistanceBp; an evaluation with a gap from 0.8 *
\* orderDistanceBp up to orderDistanceBp leaves the flag set and returns
\* without placing an order.
C6_Hysteresis ==
  /\ [][(isPausedDueToVolatility /\ ~isPausedDueToVolatility') =>
          \E t \in Tasks : ReachesGate(t) /\ GapCalm]_vars
  /\ [][\A t \in Tasks :
          (ReachesGate(t) /\ isPausedDueToVolatility /\ ~GapCalm /\ ~GapOver) =>
             /\ isPausedDueToVolatility'
             /\ task'[t].pc = "idle"
             /\ UNCHANGED <<slotVars, stats, venueVars>>]_vars

\* paused, and the evaluation of a snapshot with an 18 bp gap has returned
C6_Witness ==
  /\ isRunning /\ isPausedDueToVolatility
  /\ markPrice = 10000 /\ lastPrice = 10018
  /\ \A t \in Tasks : Idle(t)

\* C7: an evaluation that reaches the gate while not paused pauses exactly
\* when the gap is strictly above orderDistanceBp; it then sets the flag,
\* calls cancelAllOrders and returns with both slots null, having placed no
\* order.
C7_PauseOnGap ==
  /\ [][\A t \in Tasks :
          (ReachesGate(t) /\ ~isPausedDueToVolatility) =>
             IF GapOver
             THEN isPausedDueToVolatility' /\ task'[t].pc = "e_pause"
             ELSE ~isPausedDueToVolatility']_vars
  /\ [][\A t \in Tasks :
          (task[t].pc = "e_pause" /\ task'[t].pc # "e_pause") =>
             /\ task'[t].pc = "idle"
             /\ "place" \notin task[t].acts
             /\ buyOrder' = NoOrder /\ sellOrder' = NoOrder
             /\ UNCHANGED <<stats, nextId>>
             /\ venueOrders' \subseteq venueOrders]_vars

\* orders were placed, a 21 bp gap was evaluated, and the pause has emptied
\* both slots
C7_Witness ==
  /\ isPausedDueToVolatility
  /\ markPrice = 10000 /\ lastPrice = 10021
  /\ stats.ordersPlaced > 0
  /\ buyOrder = NoOrder /\ sellOrder = NoOrder
  /\ \A t \in Tasks : Idle(t)

\* C8: while the pause flag is set no procedure submits a resting limit
\* order, and order slots that are null stay null.
C8_NoQuoteWhilePaused ==
  [][isPausedDueToVolatility' =>
       /\ \A t \in Tasks : ~Submits(t)
       /\ (isPausedDueToVolatility /\ buyOrder = NoOrder /\ sellOrder = NoOrder)
             => (buyOrder' = NoOrder /\ sellOrder' = NoOrder)]_vars

\* what a skipped evaluation leaves alone
SkippedFrame ==
  UNCHANGED <<task, slotVars, position, isPausedDueToVolatility, stats,
              runVars, isProcessingFill, venueVars, closeCalls, nClosed>>

\* C9: a price message that arrives while a fill is being handled, while the
\* bot is not running or is stopping, or that carries a zero mark price,
\* starts no evaluation: no gateway call is issued and order slots,
\* position, pause flag and counters are unchanged.
C9_GuardedEvalIsNoOp ==
  [][\A s \in GuardSnapshots :
       (/\ s.mark # -1
        /\ PriceFeedObserved(s)
        /\ (isProcessingFill \/ ~isRunning \/ stopRequested \/ s.mark = 0))
       => SkippedFrame]_vars

\* the latest price message found a fill in progress, which still is
C9_Witness ==
  /\ feed = "fill" /\ isProcessingFill
  /\ isRunning /\ ~stopRequested /\ markPrice # 0

CheckActs ==
  {"gate:pass", "gate:pause", "gate:stay", "gate:resume", "gate:still",
   "spread", "dist"}

\* C10: an evaluation whose position query answers a quantity of absolute
\* value at least the tolerance calls closeDetectedPosition with that
\* quantity and performs none of the volatility, spread and distance steps.
C10_PositionGuardFlattens ==
  /\ [](\A t \in Tasks :
         (task[t].kind = "eval" /\ task[t].pc # "e_pos" /\ Abs(task[t].seen) >= Eps) =>
            /\ "flatten" \in task[t].acts
            /\ task[t].acts \cap CheckActs = {})
  /\ [][\A t \in Tasks :
          (Evaluates(t) /\ Abs(venuePos) >= Eps) =>
             /\ task'[t].pc = "f_cancel"
             /\ task'[t].qty = venuePos /\ task'[t].seen = venuePos
             /\ UNCHANGED <<isPausedDueToVolatility, slotVars, stats, venueVars>>]_vars

\* an evaluation found a position and awaits its closePosition call
C10_Witness ==
  \E t \in Tasks :
    task[t].kind = "eval" /\ task[t].pc = "f_close" /\ Abs(task[t].qty) >= Eps

\* C18: once a price message has set a positive mark price, the mark price
\* is positive in every later state; no message lowers it to zero or below.
C18_MarkStaysPositive ==
  [][markPrice > 0 => markPrice' > 0]_vars

\* awaits of a cancel call of the order gateway
CancelPcs == {"i_cancel", "r_cancel", "f_cancel", "s_cancel", "e_pause"}

\* C17: while no price message has been accepted (markPrice is still 0) no
\* handler has issued a call of the order gateway: no limit order, no
\* cancel and no close is awaited.
C17_NoGatewayBeforeFirstPrice ==
  markPrice = 0 =>
    \A t \in Tasks : task[t].pc \notin PlacePcs \cup ClosePcs \cup CancelPcs \cup {"st_close"}

\* a placeOrder call for that side is awaited, or that side's slot is set
Quotes(side) ==
  \/ (IF side = "buy" THEN buyOrder ELSE sellOrder) # NoOrder
  \/ \E t \in Tasks :
        \/ task[t].pc = "r_place" /\ task[t].side = side
        \/ task[t].pc \in (IF side = "buy" THEN {"i_buy", "e_res_buy"}
                                            ELSE {"i_sell", "e_res_sell"})

\* C15: in buy-only mode no sell limit order is submitted and sellOrder
\* stays null; in sell-only mode no buy limit order is submitted and
\* buyOrder stays null.
C15_OneSidedStaysOneSided ==
  /\ mode = "buy" => ~Quotes("sell")
  /\ mode = "sell" => ~Quotes("buy")

\* the evaluation of task t passes the position guard and the volatility
\* gate without a pause or a resume: the spread validation is reached
ReachesChecks(t) ==
  /\ Evaluates(t) /\ Abs(venuePos) < Eps
  /\ ~isPausedDueToVolatility
  /\ lastPrice = 0 \/ ~GapOver

\* the venue's resting orders of one side
Resting(orders, side) == {o \in orders : o.side = side}

\* task t is bound to replace the order of that side and nothing else
ReplacesOnly(t, side, order) ==
  /\ task'[t].pc = "r_cancel" /\ task'[t].side = side
  /\ task'[t].oid = order.orderId /\ task'[t].ret = "done"
  /\ UNCHANGED <<slotVars, venueVars, stats>>

\* C11: when the spread validation finds the tracked OPEN buy order at or
\* above the best bid (or else the tracked OPEN sell order at or below the
\* best ask), the evaluation replaces that side only: it cancels that order,
\* places on that side and returns; the other slot and the other side's
\* orders at the venue are untouched, also when the other order crosses the
\* spread or is out of the distance band.
C11_SpreadGuardOneSide ==
  /\ [][\A t \in Tasks :
          (ReachesChecks(t) /\ spreadBid # 0 /\ spreadAsk # 0) =>
             IF IsOpen(buyOrder) /\ buyOrder.price >= spreadBid
               THEN ReplacesOnly(t, "buy", buyOrder)
             ELSE IF IsOpen(sellOrder) /\ sellOrder.price <= spreadAsk
               THEN ReplacesOnly(t, "sell", sellOrder)
             ELSE "spread" \notin task'[t].acts]_vars
  /\ [](\A t \in Tasks :
         (task[t].kind = "eval" /\ "spread" \in task[t].acts) =>
            /\ task[t].pc \in {"r_cancel", "r_place"}
            /\ task[t].ret = "done" /\ "dist" \notin task[t].acts)
  /\ [][\A t \in Tasks :
          (task[t].kind = "eval" /\ "spread" \in task[t].acts /\ task'[t] # task[t]) =>
             /\ task'[t].pc \in {"r_place", "idle"}
             /\ task[t].side = "buy" =>
                   /\ sellOrder' = sellOrder
                   /\ Resting(venueOrders', "sell") = Resting(venueOrders, "sell")
             /\ task[t].side = "sell" =>
                   /\ buyOrder' = buyOrder
                   /\ Resting(venueOrders', "buy") = Resting(venueOrders, "buy")]_vars

\* the spread validation replaces the buy order while the sell order crosses
\* the best ask and is farther than maxDistanceBp from the mark price
C11_Witness ==
  \E t \in Tasks :
    /\ task[t].kind = "eval" /\ "spread" \in task[t].acts
    /\ task[t].side = "buy" /\ task[t].pc = "r_place"
    /\ IsOpen(sellOrder) /\ sellOrder.price <= spreadAsk
    /\ TooFar(markPrice, sellOrder.price)

\* |mark - price| / price * 10000 is below minDistanceBp or above maxDistanceBp
OutOfBand(o) ==
  /\ IsOpen(o)
  /\ \/ Abs(markPrice - o.price) * 10000 < minDistanceBp * o.price
     \/ Abs(markPrice - o.price) * 10000 > maxDistanceBp * o.price

\* no tracked OPEN order crosses a known spread
NoCrossing ==
  (spreadBid # 0 /\ spreadAsk # 0) =>
     /\ ~(IsOpen(buyOrder) /\ buyOrder.price >= spreadBid)
     /\ ~(IsOpen(sellOrder) /\ sellOrder.price <= spreadAsk)

\* task t is bound to replace `order` at a price for the mark price as it is
DistanceReplace(t, side, order) ==
  /\ task'[t].pc = "r_cancel" /\ task'[t].side = side
  /\ task'[t].oid = order.orderId /\ task'[t].px = markPrice'

\* C12: in an evaluation that passes the earlier guards, a tracked OPEN
\* order whose distance from the mark price is below minDistanceBp or above
\* maxDistanceBp is replaced: its cancel is issued, then a placement on its
\* side at calculateOrderPrice(side, mark, orderDistanceBp) for the mark
\* price the distance was measured against.  The buy order is checked
\* first, the sell order when the buy replacement has returned.
C12_OutOfBandReplaced ==
  /\ [][\A t \in Tasks :
          (ReachesChecks(t) /\ NoCrossing) =>
             IF OutOfBand(buyOrder) THEN DistanceReplace(t, "buy", buyOrder)
             ELSE IF OutOfBand(sellOrder) THEN DistanceReplace(t, "sell", sellOrder)
             ELSE task'[t].pc = "idle"]_vars
  /\ [][\A t \in Tasks :
          (/\ task[t].kind = "eval" /\ "dist" \in task[t].acts
           /\ task[t].pc = "r_place" /\ task[t].side = "buy"
           /\ task'[t] # task[t]) =>
             IF OutOfBand(sellOrder)'
             THEN DistanceReplace(t, "sell", sellOrder)
             ELSE task'[t].pc = "idle"]_vars
  /\ [][\A t \in Tasks :
          (/\ task[t].kind = "eval" /\ "dist" \in task[t].acts
           /\ task[t].pc = "r_cancel" /\ task'[t] # task[t]) =>
             /\ task'[t].pc = "r_place" /\ task'[t].side = task[t].side
             /\ task'[t].px = calculateOrderPrice(task[t].side, task[t].px,
                                                  orderDistanceBp)
             /\ venueOrders \ venueOrders' \subseteq
                   {[orderId |-> task[t].oid, side |-> task[t].side]}]_vars
  /\ [][\A t \in Tasks :
          (/\ task[t].kind = "eval" /\ "dist" \in task[t].acts
           /\ task[t].pc = "r_place" /\ task'[t] # task[t]) =>
             LET old == IF task[t].side = "buy" THEN buyOrder ELSE sellOrder
                 new == IF task[t].side = "buy" THEN buyOrder' ELSE sellOrder'
             IN  new # old =>
                   /\ new = NewOrder(nextId, task[t].px)
                   /\ [orderId |-> nextId, side |-> task[t].side] \in venueOrders']_vars

\* the buy order at 9980 is 5 bp from the mark 9985: it was cancelled and
\* its replacement at 9965 is being placed
C12_Witness ==
  \E t \in Tasks :
    /\ task[t].kind = "eval" /\ task[t].acts \cap {"dist", "canceled"} = {"dist", "canceled"}
    /\ task[t].pc = "r_place" /\ task[t].side = "buy"
    /\ markPrice = Near.mark /\ buyOrder.price = 9980
    /\ task[t].px = calculateOrderPrice("buy", Near.mark, orderDistanceBp)

\* the price message s repeats the price fields as they are
Redelivered(s) ==
  /\ s.mark = markPrice
  /\ s.last = 0 \/ s.last = lastPrice
  /\ s.bid = 0 \/ (s.bid = spreadBid /\ s.ask = spreadAsk)

\* C13: an evaluation that finds every tracked OPEN order inside
\* [minDistanceBp, maxDistanceBp] (and none crossing the spread) issues no
\* cancel and no placement and leaves both slots as they are; a price
\* message identical to the previous one changes no price field, so that
\* each further delivery of it is evaluated in the same way.
C13_InBandIdempotent ==
  /\ [][\A t \in Tasks :
          (/\ ReachesChecks(t) /\ NoCrossing
           /\ ~OutOfBand(buyOrder) /\ ~OutOfBand(sellOrder)) =>
             /\ task'[t].pc = "idle"
             /\ UNCHANGED <<slotVars, venueVars, stats, priceVars,
                            isPausedDueToVolatility, position>>]_vars
  /\ [][\A s \in BandSnapshots :
          (PriceFeedObserved(s) /\ Redelivered(s)) =>
             UNCHANGED <<priceVars, slotVars, venueVars, stats>>]_vars

\* both orders rest 20 bp from the mark price, no cancel was ever issued,
\* and the evaluation of the latest price message has returned
C13_Witness ==
  /\ feed = "eval" /\ \A t \in Tasks : Idle(t)
  /\ isRunning /\ markPrice = Calm.mark
  /\ IsOpen(buyOrder) /\ IsOpen(sellOrder)
  /\ ~OutOfBand(buyOrder) /\ ~OutOfBand(sellOrder)
  /\ stats.ordersCanceled = 0 /\ stats.ordersPlaced = 2

\* C14: when an evaluation of the running, unpaused bot returns with no
\* guard triggered, the tracked OPEN buy order is priced below the mark
\* price and the tracked OPEN sell order above it.
C14_QuotesStraddleMark ==
  [][\A t \in Tasks :
       (ReachesChecks(t) /\ isRunning /\ ~stopRequested /\ task'[t].pc = "idle") =>
          /\ IsOpen(buyOrder') => buyOrder'.price < markPrice'
          /\ IsOpen(sellOrder') => markPrice' < sellOrder'.price]_vars

\* start() goes from one of its awaits to the next, or throws
StartMoves(t, from, to) ==
  task[t].pc = from /\ task'[t].pc = to /\ task'[t].kind = "start"
StartThrows(t, from) ==
  /\ task[t].pc = from /\ task'[t].pc = "idle" /\ startState' = "failed"
  /\ ~isRunning /\ ~isRunning'
  /\ "place" \notin task[t].acts
  /\ UNCHANGED <<slotVars, stats, venueOrders, nextId>>

\* C16: start() passes, in this order, authentication and connection, the
\* wait for a mark price, and the position check (closing a position it
\* finds); only then does it set isRunning and go on to placeInitialOrders.
\* When authentication fails, no mark price arrives within the wait or the
\* close fails, start() throws: isRunning is still false and start() has
\* submitted no limit order.
C16_StartOrder ==
  /\ [][\A t \in Tasks :
          (task[t].kind = "start" /\ task[t].pc \in {"st_auth", "st_wait", "st_pos", "st_close"}
           /\ task'[t] # task[t]) =>
             \/ StartMoves(t, "st_auth", "st_wait") /\ handlersSet' /\ marketUp'
                   /\ UNCHANGED isRunning
             \/ StartMoves(t, "st_wait", "st_pos") /\ markPrice # 0
                   /\ UNCHANGED isRunning
             \/ StartMoves(t, "st_pos", "st_close") /\ venuePos # 0
                   /\ UNCHANGED isRunning
             \/ StartMoves(t, "st_pos", "i_cancel") /\ venuePos = 0 /\ isRunning'
             \/ StartMoves(t, "st_close", "i_cancel") /\ nClosed' = nClosed + 1
                   /\ isRunning'
             \/ StartThrows(t, "st_auth")
             \/ StartThrows(t, "st_wait") /\ markPrice = 0
             \/ StartThrows(t, "st_close") /\ nClosed' = nClosed]_vars
  /\ [][(~isRunning /\ isRunning') =>
          \E t \in Tasks : task[t].kind = "start" /\ task[t].pc \in {"st_pos", "st_close"}
                             /\ task'[t].pc = "i_cancel"]_vars
  /\ [](\A t \in Tasks :
          (task[t].kind = "start" /\ task[t].pc \in PlacePcs \cup {"i_cancel"}) =>
             startState = "starting" /\ handlersSet)
  /\ [](startState = "failed" => ~isRunning)

\* start() has found a position, closed it, and awaits its first placement
C16_Witness ==
  \E t \in Tasks :
    /\ task[t].kind = "start" /\ task[t].pc \in {"i_buy", "i_sell"}
    /\ isRunning /\ nClosed = 1 /\ task[t].qty # 0 /\ markPrice # 0

\* twice the delay of the previous retry, capped
NextDelay(d) == IF 2 * d > MaxBackoff THEN MaxBackoff ELSE 2 * d

\* C19: each channel backs off on its own: the retry scheduled when an open
\* stream closes (k = 0) has delay 1000 ms, each retry scheduled after a
\* failed retry of that channel has twice the delay of the one before,
\* capped at 30000 ms, and every scheduled retry adds one to the attempt
\* counter.
C19_BackoffPerChannel ==
  /\ [][(MarketClose /\ reconnectAttempts < maxReconnectAttempts) =>
          /\ timer'["market"] = reconnectDelay
          /\ reconnectAttempts' = reconnectAttempts + 1]_vars
  /\ [][(OrderClose /\ reconnectAttempts < maxReconnectAttempts) =>
          /\ timer'["order"] = reconnectDelay
          /\ reconnectAttempts' = reconnectAttempts + 1]_vars
  /\ [][\A x \in Streams :
          (RetryFails(x) /\ reconnectAttempts < maxReconnectAttempts) =>
             /\ timer'[x] = NextDelay(timer[x])
             /\ reconnectAttempts' = reconnectAttempts + 1]_vars

\* C20: once the attempt counter has reached maxReconnectAttempts,
\* 'max_reconnect_reached' is emitted once and not again, and after it no
\* retry timer is started and no connection is attempted.
C20_MaxReachedOnce ==
  /\ [](maxReached <= 1)
  /\ [][maxReached >= 1 =>
          /\ \A x \in Streams : timer'[x] > 0 => timer'[x] = timer[x]
          /\ \A x \in Streams : ~RetryFails(x)
          /\ ~OrderReconnected /\ \A t \in Tasks : ~MarketReconnected(t)]_vars

\* C21: every successful connection of a stream, the first one or one made
\* by a retry, leaves the reconnect attempt counter at zero.
C21_OpenResetsAttempts ==
  /\ [][(\E t \in Tasks : StartAuthDone(t) /\ marketUp') => reconnectAttempts' = 0]_vars
  /\ [][(\E t \in Tasks : MarketReconnected(t)) => reconnectAttempts' = 0]_vars
  /\ [][OrderReconnected => reconnectAttempts' = 0]_vars

\* C22: after disconnect() no retry is scheduled, no stream is connected
\* again, the attempt counter does not move and no reconnect re-quote is
\* started; a timer pending at disconnect() can only be dropped.
C22_NoReconnectAfterDisconnect ==
  [][isManualClose =>
       /\ isManualClose'
       /\ ~marketUp' /\ ~orderUp'
       /\ \A x \in Streams : timer'[x] \in {0, timer[x]}
       /\ reconnectAttempts' = reconnectAttempts
       /\ maxReached' = maxReached
       /\ \A t \in Tasks : task'[t].kind = "reconn" => task[t].kind = "reconn"]_vars

\* disconnect() has run while a retry timer was pending
C22_Witness ==
  /\ isManualClose
  /\ \E x \in Streams : timer[x] > 0

\* the re-quote started by a market reconnect has not yet returned
Requoting == \E r \in Tasks : task[r].kind = "reconn"

\* C23: a market reconnect starts a full re-quote, and until that re-quote
\* has returned no price-driven evaluation changes an order slot or an order
\* at the venue.
C23_RequoteBeforeEvaluation ==
  /\ [][(\E t \in Tasks : MarketReconnected(t)) =>
          \E r \in Tasks : task'[r].kind = "reconn" /\ task'[r].pc = "i_cancel"]_vars
  /\ [][Requoting =>
          \A t \in Tasks :
            (task[t].kind = "eval" /\ task'[t] # task[t]) =>
              UNCHANGED <<slotVars, venueOrders>>]_vars

\* C24: a text that is not JSON, or a price message without a mark price,
\* produces no 'mark_price' event, changes none of markPrice, lastPrice and
\* the spread, starts no evaluation and no order action, and leaves the
\* socket connected.
C24_MalformedIgnored ==
  [][\A w \in {Garbage, Malformed} :
       MarketMessage(w) =>
         /\ feed' = "unparsed"
         /\ UNCHANGED <<priceVars, slotVars, task, venueVars, marketUp, handlersSet>>]_vars

\* C25: once stop() has set stopRequested, no resting limit order is
\* submitted any more, whichever procedure was waiting or is triggered.
C25_NoPlacementAfterStop ==
  [][stopRequested => \A t \in Tasks : ~Submits(t)]_vars

\* the order slots for which task t has a cancel or a place outstanding
InFlight(t) ==
  IF task[t].pc \in {"r_cancel", "r_place"} THEN {task[t].side}
  ELSE IF task[t].pc \in {"i_buy", "e_res_buy"} THEN {"buy"}
  ELSE IF task[t].pc \in {"i_sell", "e_res_sell"} THEN {"sell"}
  ELSE IF task[t].pc \in {"i_cancel", "f_cancel", "s_cancel", "e_pause"} THEN Sides
  ELSE {}

\* C26: no two handlers have a cancel or a place outstanding for the same
\* order slot at the same time.
C26_OneCallPerSlot ==
  \A t, u \in Tasks : t # u => InFlight(t) \cap InFlight(u) = {}

\* the handler of task t resumes and cancels, places or rewrites: it changes
\* a slot or the orders at the venue, or issues a cancel or a place
ActsOnSlots(t) ==
  /\ task'[t] # task[t]
  /\ \/ slotVars' # slotVars
     \/ venueOrders' # venueOrders
     \/ task'[t].pc \in (CancelPcs \cup PlacePcs) /\ task'[t].pc # task[t].pc

\* C27: while isProcessingFill is set no price-driven evaluation cancels,
\* places or rewrites an order slot, also not one that was suspended in an
\* await when the fill arrived.
C27_FillExcludesEvaluation ==
  [][isProcessingFill =>
       \A t \in Tasks : task[t].kind = "eval" => ~ActsOnSlots(t)]_vars

\* C28: the order that re-quotes the filled side at the end of fill handling
\* is submitted only at a price computed from a mark price that the gateway
\* returned during that re-quote.
C28_RequoteFromFreshMark ==
  [][\A t \in Tasks :
       (task[t].kind = "fill" /\ task'[t].pc = "r_place" /\ task[t].pc # "r_place") =>
         "fresh" \in task'[t].acts]_vars

\* C29: from the close order of the fill handler until its re-quote no limit
\* order rests at the venue: the handler has cancelled what was resting
\* before it closed.
C29_NothingRestsAfterClose ==
  \A t \in Tasks :
    (task[t].kind = "fill" /\ task[t].pc \in {"h_wait", "h_pos"}) =>
      venueOrders = {}

\* task t is running closeDetectedPosition, or what it calls
Flattening(t) == "flatten" \in task[t].acts

\* task t leaves the await named pc in this step
Leaves(t, pc) == task[t].pc = pc /\ task'[t] # task[t]

OutsideFillPath(t) == Flattening(t) /\ task[t].kind \in {"eval", "posupd"}

\* C31: a flatten entered outside the fill path ends in the halt: when its
\* close has returned the controller is not running and the handler is in
\* stop(), whatever the close returned.
C31_FlattenThenHalt ==
  [][\A t \in Tasks :
       (OutsideFillPath(t) /\ Leaves(t, "f_close")) =>
         ~isRunning' /\ stopRequested' /\ task'[t].pc = "s_cancel"]_vars

\* the slot of a side
Slot(side) == IF side = "buy" THEN buyOrder ELSE sellOrder

\* start() has returned and the bot is running, not paused and flat, but a
\* side of its mode holds no order: the placement for it has failed
Unquoted(side) ==
  /\ startState = "started" /\ isRunning /\ ~stopRequested
  /\ ~isPausedDueToVolatility /\ position = 0
  /\ side \in (IF HasBuy THEN {"buy"} ELSE {}) \cup (IF HasSell THEN {"sell"} ELSE {})
  /\ Slot(side) = NoOrder

\* C32: a side left without an order by a failed placement holds a resting
\* order again later, price messages arriving and the gateway accepting.
C32_FailedPlaceRetried ==
  /\ Unquoted("buy") ~> IsOpen(buyOrder)
  /\ Unquoted("sell") ~> IsOpen(sellOrder)

\* C33: once the handling of every delivered order_update has completed, no
\* slot refers to an order whose update reported it FILLED.
C33_TerminalOrderCleared ==
  Settled => buyOrder.status # "FILLED" /\ sellOrder.status # "FILLED"

\* an evaluation is suspended in its position query, before its checks
AwaitingChecks == \E t \in Tasks : task[t].kind = "eval" /\ task[t].pc = "e_pos"

\* C34: the price data an evaluation decides on are those of the one message
\* that started it: the fields hold that message's values when it starts,
\* also for what the message omits, and they do not change while the
\* evaluation is suspended before its checks.
C34_ConsistentPriceData ==
  /\ [][\A s \in BandSnapshots :
          (PriceFeedObserved(s) /\ feed' = "eval") =>
            priceVars' = <<s.mark, s.last, s.bid, s.ask>>]_vars
  /\ [][AwaitingChecks => UNCHANGED priceVars]_vars

\* C35: an evaluation whose volatility gate resumed and placed orders runs
\* none of the lower checks: it starts no spread or distance replacement.
C35_ResumeEndsEvaluation ==
  \A t \in Tasks :
    (task[t].kind = "eval" /\ "gate:resume" \in task[t].acts) =>
      task[t].acts \cap {"spread", "dist"} = {}

\* C36: when the cancel of replaceOrder has returned, the handler goes on to
\* place for that side and the run flags are as before, whatever the cancel
\* returned; ordersCanceled grows by one exactly when the venue cancelled
\* the order, and nothing else changes it.
C36_CancelFailureNotFatal ==
  /\ [][\A t \in Tasks :
          Leaves(t, "r_cancel") =>
            /\ task'[t].pc = "r_place" /\ task'[t].side = task[t].side
            /\ UNCHANGED runVars
            /\ stats'.ordersCanceled =
                 stats.ordersCanceled + (IF venueOrders' # venueOrders THEN 1 ELSE 0)]_vars
  /\ [][stats'.ordersCanceled # stats.ordersCanceled =>
          \E t \in Tasks : Leaves(t, "r_cancel")]_vars

\* a replaceOrder whose cancel failed is awaiting its place, the bot running
C36_Witness ==
  \E t \in Tasks :
    /\ task[t].pc = "r_place" /\ "cancelfailed" \in task[t].acts
    /\ isRunning /\ ~stopRequested

\* the order_update msg refers to the order in the buy or the sell slot
RefersToSlot(msg) == msg.orderId \in {buyOrder.orderId, sellOrder.orderId}

\* C37: an order_update for an order that is in neither slot starts no fill
\* handling: the local position is unchanged and no handler is started, so
\* no close is issued for it.
C37_OnlyTrackedFillsReact ==
  [][\A msg \in inbox :
       (handleOrderUpdate(msg) /\ ~RefersToSlot(msg)) =>
         UNCHANGED <<position, task, isProcessingFill>>]_vars

\* C38: the venue holds at most one resting order per side, and every
\* resting order is the one its side's slot refers to.
C38_OneTrackedOrderPerSide ==
  /\ \A side \in Sides : Cardinality(Resting(venueOrders, side)) <= 1
  /\ \A o \in venueOrders : Slot(o.side).orderId = o.orderId

\* C39: isProcessingFill is set exactly while a handleOrderFilled is active,
\* and every handleOrderFilled whose calls return ends with the flag cleared.
C39_FillFlagCleared ==
  /\ [](isProcessingFill <=> \E t \in Tasks : task[t].kind = "fill")
  /\ isProcessingFill ~> ~isProcessingFill

\* a fill has been handled to its end and the flag is clear
C39_Witness ==
  /\ stats.ordersFilled > 0 /\ ~isProcessingFill
  /\ \A t \in Tasks : task[t].kind # "fill"

\* a close order is being issued by some handler
CloseInFlight == \E t \in Tasks : task[t].pc \in {"h_close", "f_close"}

\* C40: an open venue position of the running bot leads to a close order
\* being issued or to the bot stopping, and is not left open forever while
\* the bot runs.
C40_BackstopCloses ==
  /\ (isRunning /\ NonZero(venuePos)) ~>
        (CloseInFlight \/ ~isRunning \/ ~NonZero(venuePos))
  /\ (isRunning /\ NonZero(venuePos)) ~> (~NonZero(venuePos) \/ ~isRunning)

\* the evaluation of a price message is issuing the close of a position
\* whose fill notification has not been handled
C40_Witness ==
  /\ isRunning /\ NonZero(venuePos) /\ stats.ordersFilled = 0
  /\ \E t \in Tasks : task[t].kind = "eval" /\ task[t].pc = "f_close"
====
